---------------------------- MODULE Spec2Model ----------------------------
(***************************************************************************)
(* Incoming-scan ingestion pipeline of the photo album tools:              *)
(*   common.py                  filename grammar, get_next_filename,       *)
(*                              rename_with_retry, process_tiff_in_place   *)
(*   incoming_scans_watcher.py  validate_stitch, IncomingScanHandler       *)
(*                                                                         *)
(* File names are sequences of character codes (Python compares and sorts  *)
(* str by code point): "_" = 95, "." = 46, "0".."9" = 48..57,              *)
(* "A".."Z" = 65..90, "a".."z" = 97..122.                                  *)
(***************************************************************************)
EXTENDS Integers, Sequences, FiniteSets, TLC

VARIABLES
    seq_dir,      \* get_next_filename: base name of watch_dir
    seq_files,    \* get_next_filename: names watch_path.iterdir() yields
    seq_out,      \* get_next_filename: the returned name, None before a call
    rn,           \* rename_with_retry: the state of one call
    tiff,         \* process_tiff_in_place: the file at tiff_path
    norm,         \* process_tiff_in_place: what the latest call did
    dirs,         \* the names in each watch directory
    retry_pages,  \* IncomingScanHandler.retry_pages: dict watch_dir -> page
    units,        \* per watch directory, what its latest ingestion unit did
    queue,        \* the observer's event queue
    flight,       \* per dispatching thread, the on_created call it is in
    reactor       \* the watcher process: main() and its observer

seq_vars == <<seq_dir, seq_files, seq_out>>
norm_vars == <<tiff, norm>>
watch_vars == <<dirs, retry_pages, units>>
loop_vars == <<queue, flight, reactor>>

vars == <<seq_vars, rn, norm_vars, watch_vars, loop_vars>>

None == <<>>

\* ------------------------------------------------------------------------
\* Characters and strings

\* str.lower() on one character
Lower(c) == IF c \in 65..90 THEN c + 32 ELSE c

\* str.lower()
LowerStr(s) == [i \in 1..Len(s) |-> Lower(s[i])]

\* \d of the regular expressions
IsDigit(c) == c \in 48..57

\* int(text) of a run of decimal digits
RECURSIVE DigitsVal(_)
DigitsVal(s) ==
    IF Len(s) = 0 THEN 0
    ELSE DigitsVal(SubSeq(s, 1, Len(s) - 1)) * 10 + (s[Len(s)] - 48)

\* str(n) for n >= 0
RECURSIVE Digits(_)
Digits(n) ==
    IF n < 10 THEN <<48 + n>>
    ELSE Digits(n \div 10) \o <<48 + (n % 10)>>

\* the format specification {n:02d}: at least two digits, zero padded
Pad2(n) == IF n < 10 THEN <<48>> \o Digits(n) ELSE Digits(n)

\* f"{prefix}_P{page:02d}_S{scan:02d}.tif"
FormatName(prefix, page, scan) ==
    prefix \o <<95, 80>> \o Pad2(page) \o <<95, 83>> \o Pad2(scan)
           \o <<46, 116, 105, 102>>

\* a < b for Python str (code point order, a proper prefix is smaller)
LexLess(a, b) ==
    LET m    == IF Len(a) < Len(b) THEN Len(a) ELSE Len(b)
        diff == {i \in 1..m : a[i] # b[i]}
    IN  IF diff = {} THEN Len(a) < Len(b)
        ELSE LET k == CHOOSE i \in diff : \A j \in diff : i <= j
             IN  a[k] < b[k]

\* Path(name).suffix: from the last dot on, "" when there is none or the
\* name starts with its only dot
Suffix(name) ==
    LET dots == {i \in 2..Len(name) : name[i] = 46}
    IN  IF dots = {} THEN <<>>
        ELSE LET d == CHOOSE i \in dots : \A j \in dots : j <= i
             IN  SubSeq(name, d, Len(name))

\* ------------------------------------------------------------------------
\* Filename grammar

\* FILENAME_PATTERN.match(name):
\*   ^(?P<prefix>.+)_P(?P<page>\d{2})_S(?P<scan>\d{2})\.tif$  (IGNORECASE)
\* The tail after the prefix has the fixed length 12.
FilenameMatch(name) ==
    LET n == Len(name)
    IN  IF /\ n >= 13
           /\ name[n - 11] = 95
           /\ Lower(name[n - 10]) = 112
           /\ IsDigit(name[n - 9])
           /\ IsDigit(name[n - 8])
           /\ name[n - 7] = 95
           /\ Lower(name[n - 6]) = 115
           /\ IsDigit(name[n - 5])
           /\ IsDigit(name[n - 4])
           /\ name[n - 3] = 46
           /\ Lower(name[n - 2]) = 116
           /\ Lower(name[n - 1]) = 105
           /\ Lower(name[n]) = 102
        THEN [matched |-> TRUE,
              prefix  |-> SubSeq(name, 1, n - 12),
              page    |-> SubSeq(name, n - 9, n - 8),
              scan    |-> SubSeq(name, n - 5, n - 4)]
        ELSE [matched |-> FALSE, prefix |-> <<>>, page |-> <<>>, scan |-> <<>>]

\* the end of the greedy \d+ that starts at position i (i - 1 when empty)
RECURSIVE DigitRunEnd(_, _)
DigitRunEnd(s, i) ==
    IF i <= Len(s) /\ IsDigit(s[i]) THEN DigitRunEnd(s, i + 1) ELSE i - 1

\* PAGE_SCAN_RE: _P(?P<page>\d+)_S(?P<scan>\d+) (IGNORECASE) matched at i
PageScanAt(s, i) ==
    LET e1 == DigitRunEnd(s, i + 2)
        e2 == DigitRunEnd(s, e1 + 3)
    IN  IF /\ i + 1 <= Len(s)
           /\ s[i] = 95
           /\ Lower(s[i + 1]) = 112
           /\ e1 >= i + 2
           /\ e1 + 2 <= Len(s)
           /\ s[e1 + 1] = 95
           /\ Lower(s[e1 + 2]) = 115
           /\ e2 >= e1 + 3
        THEN [matched |-> TRUE,
              page    |-> SubSeq(s, i + 2, e1),
              scan    |-> SubSeq(s, e1 + 3, e2)]
        ELSE [matched |-> FALSE, page |-> <<>>, scan |-> <<>>]

\* PAGE_SCAN_RE.search(s): the leftmost match
PageScanSearch(s) ==
    LET hits == {i \in 1..Len(s) : PageScanAt(s, i).matched}
    IN  IF hits = {} THEN [matched |-> FALSE, page |-> <<>>, scan |-> <<>>]
        ELSE PageScanAt(s, CHOOSE i \in hits : \A j \in hits : i <= j)

\* ------------------------------------------------------------------------
\* Filename sequencer

\* derive_prefix that keeps the "_Archive" ending
DerivePrefixKeepsEnding(base) == base

\* derive_prefix(dir_path), on the base name of the directory
DerivePrefix(base) ==
    LET n == Len(base)
    IN  IF n >= 8 /\ LowerStr(SubSeq(base, n - 7, n))
                       = <<95, 97, 114, 99, 104, 105, 118, 101>>
        THEN SubSeq(base, 1, n - 8)
        ELSE base

\* valid_files of get_next_filename
ValidFiles(listing) ==
    {f \in listing :
        /\ LowerStr(Suffix(f)) = <<46, 116, 105, 102>>
        /\ FilenameMatch(f).matched}

\* valid_files.sort(); valid_files[-1]
LastSorted(names) == CHOOSE f \in names : \A g \in names : g = f \/ LexLess(g, f)

\* the advance without the single-scan cover page
AdvanceCoverTwoScans(page, scan) ==
    IF scan < 2 THEN [page |-> page, scan |-> scan + 1]
    ELSE [page |-> page + 1, scan |-> 1]

\* an advance that gives a non-cover page three scans
AdvanceThreeScans(page, scan) ==
    IF page = 1 THEN [page |-> 2, scan |-> 1]
    ELSE IF scan < 3 THEN [page |-> page, scan |-> scan + 1]
    ELSE [page |-> page + 1, scan |-> 1]

\* the page/scan advance of get_next_filename
Advance(page, scan) ==
    IF page = 1 THEN [page |-> 2, scan |-> 1]
    ELSE IF scan < 2 THEN [page |-> page, scan |-> scan + 1]
    ELSE [page |-> page + 1, scan |-> 1]

\* get_next_filename(watch_dir, FILENAME_PATTERN)
GetNextFilename(base, listing) ==
    LET valid == ValidFiles(listing)
    IN  IF valid = {}
        THEN DerivePrefix(base)
                 \o <<95, 80, 48, 49, 95, 83, 48, 49, 46, 116, 105, 102>>
        ELSE LET m    == FilenameMatch(LastSorted(valid))
                 next == Advance(DigitsVal(m.page), DigitsVal(m.scan))
             IN  FormatName(m.prefix, next.page, next.scan)


\* ------------------------------------------------------------------------
\* Atomic installer: rename_with_retry

\* attempts: int = 30
RenameAttempts == 30

\* what one os.rename call does: it renames, or raises PermissionError,
\* FileNotFoundError or another exception (FileExistsError, OSError, ...)
TransientErrors == {"PermissionError", "FileNotFoundError"}
RenameOutcomes == {"ok", "OtherError"} \cup TransientErrors

\* the entry of rename_with_retry: last_error = None, before the loop
RenameStart(attempts, has_log) ==
    [pc            |-> IF attempts > 0 THEN "loop" ELSE "after",
     attempts      |-> attempts,
     has_log       |-> has_log,
     calls         |-> 0,          \* os.rename calls made
     sleeps        |-> 0,          \* time.sleep(delay) calls made
     last_error    |-> "None",
     last_outcome  |-> "None",     \* what the latest os.rename call did
     retried_after |-> {},         \* outcomes a further attempt followed
     moved         |-> FALSE,      \* the file is now at new_path
     logged        |-> FALSE,      \* log_error("Rename failed: ...") called
     result        |-> "None"]

\* a loop body that sleeps and retries after every exception class
RenameAttemptRetriesAll(st, outcome) ==
    IF outcome = "ok"
    THEN [st EXCEPT !.calls = @ + 1, !.last_outcome = outcome,
                    !.retried_after =
                        @ \cup (IF st.calls > 0 THEN {st.last_outcome} ELSE {}),
                    !.moved = TRUE, !.result = "True", !.pc = "returned"]
    ELSE [st EXCEPT !.calls = @ + 1, !.last_outcome = outcome,
                    !.retried_after =
                        @ \cup (IF st.calls > 0 THEN {st.last_outcome} ELSE {}),
                    !.last_error = outcome, !.sleeps = @ + 1,
                    !.pc = IF st.calls + 1 < st.attempts THEN "loop"
                           ELSE "after"]

\* one iteration of "for _ in range(attempts)": the os.rename call and the
\* except clause it lands in
RenameAttempt(st, outcome) ==
    LET called ==
            [st EXCEPT !.calls = @ + 1, !.last_outcome = outcome,
                       !.retried_after =
                           @ \cup (IF st.calls > 0 THEN {st.last_outcome}
                                   ELSE {})]
    IN  CASE outcome = "ok" ->
                [called EXCEPT !.moved = TRUE, !.result = "True",
                               !.pc = "returned"]
          [] outcome \in TransientErrors ->
                [called EXCEPT !.last_error = outcome, !.sleeps = @ + 1,
                               !.pc = IF st.calls + 1 < st.attempts
                                      THEN "loop" ELSE "after"]
          [] OTHER ->
                [called EXCEPT !.last_error = outcome, !.pc = "after"]

\* the code after the loop: log the last error, return False
RenameGiveUp(st) ==
    [st EXCEPT !.logged = (st.last_error # "None" /\ st.has_log),
               !.result = "False", !.pc = "returned"]

\* the whole call, attempt i ending as outcomes[i]
RECURSIVE RenameRun(_, _)
RenameRun(st, outcomes) ==
    IF st.pc = "loop" THEN RenameRun(RenameAttempt(st, outcomes[st.calls + 1]),
                                     outcomes)
    ELSE IF st.pc = "after" THEN RenameGiveUp(st)
    ELSE st

\* rename_with_retry(old_path, new_path, log_error=...) with the defaults
RenameWithRetry(outcomes, has_log) ==
    RenameRun(RenameStart(RenameAttempts, has_log), outcomes)


\* ------------------------------------------------------------------------
\* Tiff normalizer: tiff_needs_conversion, validate_pixels,
\* process_tiff_in_place

\* replace_attempts: int = 10
ReplaceAttempts == 10

\* The tags exiftool prints (lower-cased) and the pixels of a file. Pixels
\* are two samples of 0 or 1.
ExtraSamplesValues == {"none", "unspecified", "associated alpha"}
CompressionValues == {"lzw", "uncompressed"}
PredictorValues == {"horizontal differencing", "none"}
Images == {<<a, b>> : a \in 0..1, b \in 0..1}

TiffFiles ==
    [extra : ExtraSamplesValues, compression : CompressionValues,
     predictor : PredictorValues, pixels : Images]

\* tiff_needs_conversion with an inspection fault read as "no conversion"
TiffNeedsConversionFaultSkips(file, exif) ==
    /\ exif = "ok"
    /\ \/ file.extra = "associated alpha"
       \/ file.compression # "lzw"
       \/ file.predictor # "horizontal differencing"

\* tiff_needs_conversion(tiff_path): exif is "ok" when exiftool ran, "fault"
\* when subprocess.run raised (tool missing, non-zero exit)
TiffNeedsConversion(file, exif) ==
    IF exif = "fault" THEN TRUE
    ELSE LET has_alpha      == file.extra = "associated alpha"
             compression_ok == file.compression = "lzw"
             predictor_ok   == file.predictor = "horizontal differencing"
         IN  has_alpha \/ ~compression_ok \/ ~predictor_ok

\* magick <tiff> -alpha off -compress lzw -define tiff:predictor=2 <tmp>:
\* the file written to tmp_path; "altered" is a conversion that changes a
\* pixel
MagickConvert(file, magick) ==
    [extra       |-> "none",
     compression |-> "lzw",
     predictor   |-> "horizontal differencing",
     pixels      |-> IF magick = "altered"
                     THEN <<1 - file.pixels[1], file.pixels[2]>>
                     ELSE file.pixels]

\* the number of differing pixels, what magick compare -metric AE counts
DiffCount(a, b) == Cardinality({i \in 1..2 : a.pixels[i] # b.pixels[i]})

\* result.stderr.strip().split() of magick compare: "<n>", "<n> (<x>)",
\* an error text, or nothing
CompareStderr(original, converted, compare) ==
    CASE compare = "count" ->
            <<[int |-> TRUE, val |-> DiffCount(original, converted)]>>
      [] compare = "count_rel" ->
            <<[int |-> TRUE, val |-> DiffCount(original, converted)],
              [int |-> FALSE, val |-> 0]>>
      [] compare = "unreadable" ->
            <<[int |-> FALSE, val |-> 0], [int |-> FALSE, val |-> 0]>>
      [] OTHER -> <<>>

\* validate_pixels that takes an unreadable count for a match
ValidatePixelsLenient(original, converted, compare) ==
    LET tokens == CompareStderr(original, converted, compare)
    IN  IF Len(tokens) = 0 THEN TRUE
        ELSE IF ~tokens[1].int THEN TRUE
        ELSE tokens[1].val = 0

\* validate_pixels(original_path, converted_path)
ValidatePixels(original, converted, compare) ==
    LET tokens == CompareStderr(original, converted, compare)
    IN  IF Len(tokens) = 0 THEN FALSE             \* IndexError
        ELSE IF ~tokens[1].int THEN FALSE         \* ValueError
        ELSE tokens[1].val = 0

\* what one tmp_path.replace(tiff_path) call does
ReplaceOutcomes ==
    {"ok", "PermissionError", "FileNotFoundError", "OtherError"}

\* a replace loop that also sleeps and tries again after FileNotFoundError,
\* as rename_with_retry does
RECURSIVE ReplaceRunRetriesNotFound(_, _)
ReplaceRunRetriesNotFound(st, outcomes) ==
    IF st.calls >= ReplaceAttempts \/ st.done THEN st
    ELSE LET outcome == outcomes[st.calls + 1]
             tried   == [st EXCEPT !.calls = @ + 1,
                                   !.outcomes = Append(@, outcome)]
         IN  CASE outcome = "ok" ->
                     [tried EXCEPT !.done = TRUE, !.replaced = TRUE]
               [] outcome \in TransientErrors ->
                     ReplaceRunRetriesNotFound(
                         [tried EXCEPT !.sleeps = @ + 1], outcomes)
               [] OTHER ->
                     [tried EXCEPT !.done = TRUE,
                                   !.emitted = Append(@, "replace error")]

\* the replace loop of process_tiff_in_place: attempt i ends as outcomes[i]
RECURSIVE ReplaceRun(_, _)
ReplaceRun(st, outcomes) ==
    IF st.calls >= ReplaceAttempts \/ st.done THEN st
    ELSE LET outcome == outcomes[st.calls + 1]
             tried   == [st EXCEPT !.calls = @ + 1,
                                   !.outcomes = Append(@, outcome)]
         IN  CASE outcome = "ok" ->
                     [tried EXCEPT !.done = TRUE, !.replaced = TRUE]
               [] outcome = "PermissionError" ->
                     ReplaceRun([tried EXCEPT !.sleeps = @ + 1], outcomes)
               [] OTHER ->
                     [tried EXCEPT !.done = TRUE,
                                   !.emitted = Append(@, "replace error")]

\* what a call that did nothing yet reports
NormReport(file) ==
    [called        |-> FALSE,
     before        |-> file,     \* the file at tiff_path when called
     result        |-> "None",   \* "True", "False" or "raised"
     needed        |-> FALSE,    \* tiff_needs_conversion returned True
     temp_created  |-> FALSE,    \* tempfile.mkstemp ran
     converted     |-> FALSE,    \* the magick conversion ran
     compared      |-> FALSE,    \* validate_pixels ran
     stderr        |-> <<>>,     \* what the comparison printed
     replace_calls |-> 0,        \* tmp_path.replace calls
     replace_ends  |-> <<>>,     \* how each tmp_path.replace call ended
     replaced      |-> FALSE,    \* a replace call succeeded
     temp_left     |-> FALSE,    \* the temporary file still exists
     emitted       |-> <<>>,     \* emit(...) messages
     inspection    |-> "None",   \* "ok" or "fault": how exiftool ended
     prev_result   |-> "None",   \* result of the call before this one
     prev_replaced |-> FALSE]    \* the call before this one replaced the file

\* process_tiff_in_place(tiff_path): the report of the call and the file
\* at tiff_path after it
ProcessTiffInPlace(file, env) ==
    LET start == [NormReport(file) EXCEPT !.called = TRUE,
                                          !.inspection = env.exif]
    IN  IF ~TiffNeedsConversion(file, env.exif)
        THEN [file |-> file, report |-> [start EXCEPT !.result = "True"]]
        ELSE
        LET temp == [start EXCEPT !.needed = TRUE, !.temp_created = TRUE]
            tmp  == MagickConvert(file, env.magick)
        IN  CASE env.magick = "OSError" ->
                    \* subprocess.run raises, no except clause matches
                    [file |-> file,
                     report |-> [temp EXCEPT !.converted = TRUE,
                                             !.temp_left = TRUE,
                                             !.result = "raised"]]
              [] env.magick = "CalledProcessError" ->
                    [file |-> file,
                     report |-> [temp EXCEPT !.converted = TRUE,
                                    !.emitted = <<"processing error">>,
                                    !.result = "False"]]
              [] ~ValidatePixels(file, tmp, env.compare) ->
                    [file |-> file,
                     report |-> [temp EXCEPT !.converted = TRUE,
                                    !.compared = TRUE,
                                    !.stderr = CompareStderr(file, tmp,
                                                             env.compare),
                                    !.emitted = <<"pixel mismatch">>,
                                    !.result = "False"]]
              [] OTHER ->
                    LET loop == ReplaceRun([calls |-> 0, sleeps |-> 0,
                                            done |-> FALSE,
                                            replaced |-> FALSE,
                                            outcomes |-> <<>>,
                                            emitted |-> <<>>],
                                           env.replace)
                        checked == [temp EXCEPT !.converted = TRUE,
                                       !.compared = TRUE,
                                       !.stderr = CompareStderr(file, tmp,
                                                                env.compare),
                                       !.replace_calls = loop.calls,
                                       !.replace_ends = loop.outcomes,
                                       !.replaced = loop.replaced]
                    IN  IF loop.replaced
                        THEN [file |-> tmp,
                              report |-> [checked EXCEPT !.result = "True"]]
                        ELSE [file |-> file,
                              report |-> [checked EXCEPT
                                 !.temp_left = TRUE,
                                 !.emitted = Append(loop.emitted,
                                     "replace permission denied"),
                                 !.result = "False"]]

\* The tools around one call: whether exiftool runs, what the conversion
\* does, what the comparison prints, and how the replace attempts end
\* (fails PermissionErrors, then "ok", FileNotFoundError or another error).
ReplaceScript(fails, then) ==
    [i \in 1..ReplaceAttempts |-> IF i <= fails THEN "PermissionError" ELSE then]

\* the file of the specifications that normalize nothing
IdleTiff ==
    [extra |-> "none", compression |-> "lzw",
     predictor |-> "horizontal differencing", pixels |-> <<0, 0>>]

NormEnvs ==
    [exif    : {"ok", "fault"},
     magick  : {"ok", "altered", "CalledProcessError", "OSError"},
     compare : {"count", "count_rel", "unreadable", "empty"},
     replace : {ReplaceScript(f, t) :
                   f \in {0, 1, ReplaceAttempts - 1, ReplaceAttempts},
                   t \in {"ok", "FileNotFoundError", "OtherError"}}]


\* ------------------------------------------------------------------------
\* Page scans of a directory and the retry slot

\* INCOMING_NAME = "incoming_scan.tif"
IncomingName ==
    <<105, 110, 99, 111, 109, 105, 110, 103, 95, 115, 99, 97, 110,
      46, 116, 105, 102>>

\* str(dir_path / name), os.path.join(watch_dir, name)
PathOf(base, name) == base \o <<47>> \o name

\* key(path) of list_page_scans_for_page: the scan number found in the path
ScanKey(path) ==
    LET m == PageScanSearch(path)
    IN  IF m.matched THEN DigitsVal(m.scan) ELSE 0

\* files.sort(key=key) on (key, path) pairs: ascending scan number; paths
\* with equal keys keep the order iterdir gave them, taken here as the order
\* of the names
RECURSIVE SortByScan(_)
SortByScan(keyed) ==
    IF keyed = {} THEN <<>>
    ELSE LET first == CHOOSE f \in keyed : \A g \in keyed :
                         \/ g = f
                         \/ f[1] < g[1]
                         \/ f[1] = g[1] /\ LexLess(f[2], g[2])
         IN  <<first[2]>> \o SortByScan(keyed \ {first})

\* the page number PAGE_SCAN_RE.search(entry.name) finds, -1 for no match
EntryPage(name) ==
    LET m == PageScanSearch(name)
    IN  IF m.matched THEN DigitsVal(m.page) ELSE -1

\* list_page_scans_for_page(directory, page_num)
ListPageScansForPage(base, listing, page_num) ==
    SortByScan({<<ScanKey(PathOf(base, f)), PathOf(base, f)>> : f \in
        {g \in listing :
            /\ LowerStr(Suffix(g)) \in {<<46, 116, 105, 102>>,
                                       <<46, 116, 105, 102, 102>>}
            /\ EntryPage(g) = page_num}})

\* a retry slot that is the next page's first scan
GetRetryFilenameNextPage(base, listing, page_num) ==
    FormatName(DerivePrefix(base), page_num + 1, 1)

\* a retry slot two scans after the last scan of the page
GetRetryFilenameSkipsOne(base, listing, page_num) ==
    LET files == ListPageScansForPage(base, listing, page_num)
        scan  == IF Len(files) > 0
                 THEN ScanKey(files[Len(files)]) + 2
                 ELSE 1
    IN  FormatName(DerivePrefix(base), page_num, scan)

\* IncomingScanHandler._get_retry_filename(watch_dir, page_num)
GetRetryFilename(base, listing, page_num) ==
    LET files == ListPageScansForPage(base, listing, page_num)
        scan  == IF Len(files) > 0
                 THEN LET m == PageScanSearch(files[Len(files)])
                      IN  (IF m.matched THEN DigitsVal(m.scan) ELSE 1) + 1
                 ELSE 1
    IN  FormatName(DerivePrefix(base), page_num, scan)

\* ------------------------------------------------------------------------
\* Stitch validator of the watcher

\* the attempts with brisk before sift
StitchLadderBriskFirst ==
    <<[detector |-> "brisk", confidence_tenths |-> 1],
      [detector |-> "sift", confidence_tenths |-> 3]>>

\* attempts of validate_stitch: (detector, confidence_threshold in tenths)
StitchLadder ==
    <<[detector |-> "sift", confidence_tenths |-> 3],
      [detector |-> "brisk", confidence_tenths |-> 1]>>

\* What one pass of the loop of validate_stitch does: "fault" is stitch
\* raising, "empty" is stitch returning None or an array of size 0, "full"
\* a panorama of all inputs, "partial" a panorama with the warning that not
\* all images are included in it, "unsaved" a panorama for which
\* save_stitch_preview raised inside the try.
StitchOutcomes == {"fault", "empty", "full", "partial", "unsaved"}

\* the configurations validate_stitch goes through: the calls it made with
\* their outcomes, and whether one was accepted
RECURSIVE StitchAttempts(_, _, _)
StitchAttempts(i, outcomes, calls) ==
    IF i > Len(StitchLadder) THEN [success |-> FALSE, calls |-> calls]
    ELSE LET made == Append(calls, [cfg |-> StitchLadder[i],
                                     outcome |-> outcomes[i]])
         IN  IF outcomes[i] \in {"full", "partial"}
             THEN [success |-> TRUE, calls |-> made]
             ELSE StitchAttempts(i + 1, outcomes, made)

\* validate_stitch(files) of incoming_scans_watcher.py; available is
\* whether the stitching package was imported
ValidateStitch(files, available, outcomes) ==
    IF ~available
    THEN [raised |-> TRUE, success |-> FALSE, calls |-> <<>>]
    ELSE IF Len(files) < 2
    THEN [raised |-> FALSE, success |-> TRUE, calls |-> <<>>]
    ELSE LET r == StitchAttempts(1, outcomes, <<>>)
         IN  [raised |-> FALSE, success |-> r.success, calls |-> r.calls]


\* ------------------------------------------------------------------------
\* Event dispatcher: IncomingScanHandler.on_created

\* what a directory's unit record holds before any unit ran
NoUnit ==
    [started         |-> FALSE,
     sleeps          |-> 0,       \* sleep_fn(2.0) calls
     had_retry       |-> FALSE,   \* retry_pages.get(watch_dir) is not None
     retry_page      |-> 0,       \* its value (0 for None)
     before          |-> {},      \* the names in the directory at the start
     new_name        |-> <<>>,
     rename_called   |-> FALSE,
     renamed         |-> FALSE,
     process_called  |-> FALSE,
     process_result  |-> "None",  \* "True", "False" or "raised"
     page_num        |-> 0,
     files           |-> <<>>,    \* list_page_scans_fn(watch_dir, page_num)
     validate_called |-> FALSE,
     stitch_calls    |-> <<>>,    \* the stitch(files) calls and outcomes
     success         |-> "None",  \* "True", "False" or "raised"
     viewer_calls    |-> 0,
     alerts          |-> 0,
     log             |-> <<>>,    \* the log_ok_fn, log_error_fn, alert_fn calls
     raised          |-> FALSE]   \* an exception left on_created

\* a log_ok_fn or log_error_fn call; name is the file the message names
LogLine(fn, name, text) == [fn |-> fn, name |-> name, text |-> text]

\* the emit(...) messages of process_tiff_in_place as log_error_fn calls
RECURSIVE EmittedLines(_, _)
EmittedLines(name, emitted) ==
    IF emitted = <<>> THEN <<>>
    ELSE <<LogLine("log_error", name, Head(emitted))>>
            \o EmittedLines(name, Tail(emitted))

\* lines 256-264 with the entry kept after a successful validation
RetryPagesAfterNeverCleared(retry, d, had_retry, retry_page, page_num, success) ==
    IF success THEN retry
    ELSE [x \in DOMAIN retry \cup {d} |->
             IF x = d THEN page_num ELSE retry[x]]

\* retry_pages with the page recorded whatever the validation result
RetryPagesAfterSetOnAnyResult(retry, d, had_retry, retry_page, page_num, success) ==
    [x \in DOMAIN retry \cup {d} |-> IF x = d THEN page_num ELSE retry[x]]

\* retry_pages emptied, not popped, by the success on the recorded page
RetryPagesAfterClearsAll(retry, d, had_retry, retry_page, page_num, success) ==
    IF success
    THEN IF had_retry /\ retry_page = page_num
         THEN [x \in {} |-> 0] ELSE retry
    ELSE [x \in DOMAIN retry \cup {d} |->
             IF x = d THEN page_num ELSE retry[x]]

\* retry_pages that a failed validation leaves as it was
RetryPagesAfterNeverSet(retry, d, had_retry, retry_page, page_num, success) ==
    IF success /\ had_retry /\ retry_page = page_num
    THEN [x \in DOMAIN retry \ {d} |-> retry[x]]
    ELSE retry

\* lines 256-264: retry_pages after the validation result is known
RetryPagesAfter(retry, d, had_retry, retry_page, page_num, success) ==
    IF success
    THEN IF had_retry /\ retry_page = page_num
         THEN [x \in DOMAIN retry \ {d} |-> retry[x]]
         ELSE retry
    ELSE [x \in DOMAIN retry \cup {d} |->
             IF x = d THEN page_num ELSE retry[x]]

\* lines 240-241 going on to normalize after a failed rename
AfterInstallFailureGoesOn(renamed) == TRUE

\* lines 240-241: the unit goes on only when rename_fn returned True
AfterInstall(renamed) == renamed

\* line 254 with the validator called for every page
NeedsStitchAlways(files) == TRUE

\* line 254: len(files) >= 2
NeedsStitch(files) == Len(files) >= 2

\* lines 265-266 with the alert after the status line
StitchFailedCallsLogFirst(name) ==
    <<LogLine("log_error", name, "STITCH FAILED"),
      LogLine("alert_fn", <<>>, "alert")>>

\* lines 265-266: alert_fn(), then log_error_fn("<name> STITCH FAILED")
StitchFailedCalls(name) ==
    <<LogLine("alert_fn", <<>>, "alert"),
      LogLine("log_error", name, "STITCH FAILED")>>

\* lines 247-268: after a successful normalization
HandleNormalized(d, installed, retry, u, env) ==
    LET page_match == PageScanSearch(u.new_name)
        page_num   == DigitsVal(page_match.page)
        files      == ListPageScansForPage(d, installed, page_num)
        ok_line    == LogLine("log_ok", u.new_name, "OK")
    IN  IF ~page_match.matched
        THEN [listing |-> installed, retry |-> retry,
              unit |-> [u EXCEPT !.log = Append(@, ok_line)]]
        ELSE IF ~NeedsStitch(files)
        THEN [listing |-> installed, retry |-> retry,
              unit |-> [u EXCEPT !.page_num = page_num, !.files = files,
                                 !.log = Append(@, ok_line)]]
        ELSE
        LET v  == ValidateStitch(files, env.stitcher, env.stitch)
            uv == [u EXCEPT !.page_num = page_num, !.files = files,
                            !.validate_called = TRUE,
                            !.stitch_calls = v.calls]
        IN  IF v.raised
            THEN [listing |-> installed, retry |-> retry,
                  unit |-> [uv EXCEPT !.success = "raised", !.raised = TRUE]]
            ELSE
            LET after == RetryPagesAfter(retry, d, u.had_retry, u.retry_page,
                                         page_num, v.success)
            IN  IF ~v.success
                THEN [listing |-> installed, retry |-> after,
                      unit |-> [uv EXCEPT !.success = "False",
                                   !.alerts = @ + 1,
                                   !.log = @ \o StitchFailedCalls(u.new_name)]]
                ELSE IF env.preview /\ env.viewer = "raises"
                THEN \* open_image_fn raised before log_ok_fn
                     [listing |-> installed, retry |-> after,
                      unit |-> [uv EXCEPT !.success = "True",
                                   !.viewer_calls = 1, !.raised = TRUE]]
                ELSE [listing |-> installed, retry |-> after,
                      unit |-> [uv EXCEPT !.success = "True",
                                   !.viewer_calls =
                                       IF env.preview THEN 1 ELSE 0,
                                   !.log = Append(@, ok_line)]]

\* lines 223-226 with only directory events ignored
IgnoredOnlyDirectories(event) == event.is_directory

\* lines 223-226: a directory event, or a basename that is not the
\* sentinel name when both are lower-cased
Ignored(event) ==
    \/ event.is_directory
    \/ LowerStr(event.basename) # LowerStr(IncomingName)

\* lines 230-234: the retry entry read and the name chosen, for a directory
\* holding the names at
NameUnit(d, at, retry) ==
    LET had  == d \in DOMAIN retry
        page == IF had THEN retry[d] ELSE 0
    IN  [had_retry  |-> had,
         retry_page |-> page,
         new_name   |-> IF had THEN GetRetryFilename(d, at, page)
                        ELSE GetNextFilename(d, at)]

\* lines 236-240: rename_fn(old_path, new_path, log_error=log_error_fn) for
\* the unit named nm; at are the names in the directory at the rename
InstallUnit(d, at, nm, env) ==
    LET r == RenameWithRetry(env.rename, TRUE)
    IN  [listing |-> IF r.moved
                     THEN (at \ {IncomingName}) \cup {nm.new_name} ELSE at,
         unit    |-> [NoUnit EXCEPT !.started = TRUE, !.sleeps = 1,
                         !.had_retry = nm.had_retry,
                         !.retry_page = nm.retry_page, !.before = at,
                         !.new_name = nm.new_name, !.rename_called = TRUE,
                         !.renamed = (r.result = "True"),
                         !.log = IF r.logged
                                 THEN <<LogLine("log_error", <<>>,
                                                "Rename failed")>>
                                 ELSE <<>>]]

\* lines 243-268: the unit u0 after its file was installed
AfterInstalled(d, installed, retry, u0, env) ==
    LET n  == ProcessTiffInPlace(env.scan_file, env.norm).report
        u1 == [u0 EXCEPT !.process_called = TRUE,
                         !.process_result = n.result,
                         !.log = @ \o EmittedLines(u0.new_name, n.emitted)]
    IN  CASE n.result = "raised" ->
                [listing |-> installed, retry |-> retry,
                 unit |-> [u1 EXCEPT !.raised = TRUE]]
          [] n.result = "False" ->
                [listing |-> installed, retry |-> retry,
                 unit |-> [u1 EXCEPT !.log = Append(@,
                             LogLine("log_error", u0.new_name, "ERROR"))]]
          [] OTHER -> HandleNormalized(d, installed, retry, u1, env)

\* on_created(event) for an event in watch directory d: the names in the
\* directory, retry_pages and the unit record after the handler returned
HandleCreated(d, listing, retry, env) ==
    IF Ignored(env)
    THEN [listing |-> listing, retry |-> retry, unit |-> NoUnit]
    ELSE
    LET at == listing \cup {IncomingName}
        i  == InstallUnit(d, at, NameUnit(d, at, retry), env)
    IN  IF ~AfterInstall(i.unit.renamed)
        THEN [listing |-> i.listing, retry |-> retry, unit |-> i.unit]
        ELSE AfterInstalled(d, i.listing, retry, i.unit, env)

\* ------------------------------------------------------------------------
\* Directories the sequencer is applied to

MaxFiles == 2

\* a name "{prefix}_P{page}_S{scan}.tif" with the markers in either case
MarkedName(prefix, lower, page, scan) ==
    prefix \o (IF lower THEN <<95, 112>> ELSE <<95, 80>>) \o page
           \o (IF lower THEN <<95, 115>> ELSE <<95, 83>>) \o scan
           \o <<46, 116, 105, 102>>

\* "00", "01", "02", "99"
TwoDigitFields == {<<48, 48>>, <<48, 49>>, <<48, 50>>, <<57, 57>>}

\* names that match the grammar: prefixes "A" and "B", "A" also with
\* lower-case markers
MatchingNames ==
    {MarkedName(<<65>>, l, p, s) :
        l \in BOOLEAN, p \in TwoDigitFields, s \in TwoDigitFields \ {<<57, 57>>}}
    \cup {MarkedName(<<66>>, FALSE, p, s) :
        p \in TwoDigitFields, s \in TwoDigitFields \ {<<57, 57>>}}

\* names that do not: "incoming_scan.tif", "A_P2_S1.tif", "A_P100_S01.tif",
\* "A_P01_S01.tiff", "_P01_S01.tif"
MalformedNames ==
    {<<105, 110, 99, 111, 109, 105, 110, 103, 95, 115, 99, 97, 110,
       46, 116, 105, 102>>,
     MarkedName(<<65>>, FALSE, <<50>>, <<49>>),
     MarkedName(<<65>>, FALSE, <<49, 48, 48>>, <<48, 49>>),
     MarkedName(<<65>>, FALSE, <<48, 49>>, <<48, 49>>) \o <<102>>,
     MarkedName(<<>>, FALSE, <<48, 49>>, <<48, 49>>)}

SeqNames == MatchingNames \cup MalformedNames

\* "A_Archive", "B_ARCHIVE", "A", "A_Archive2"
SeqDirNames ==
    {<<65, 95, 65, 114, 99, 104, 105, 118, 101>>,
     <<66, 95, 65, 82, 67, 72, 73, 86, 69>>,
     <<65>>,
     <<65, 95, 65, 114, 99, 104, 105, 118, 101, 50>>}


\* ------------------------------------------------------------------------
\* The watcher's environment

MaxPage == 3
MaxScan == 4

\* "A_Archive": the watch directory, by base name
WatchDirs == {<<65, 95, 65, 114, 99, 104, 105, 118, 101>>}

\* retry_pages = {}
EmptyDict == [x \in {} |-> 0]

\* attempt i of os.rename ends as kind for i <= fails, then as then
RenameScript(fails, kind, then) ==
    [i \in 1..RenameAttempts |-> IF i <= fails THEN kind ELSE then]

RenameScripts ==
    {RenameScript(0, "PermissionError", "ok"),
     RenameScript(1, "PermissionError", "ok"),
     RenameScript(RenameAttempts, "FileNotFoundError", "ok"),
     RenameScript(0, "PermissionError", "OtherError")}

\* the file a scanner writes, and one that is already canonical
ScannedFiles ==
    {[extra |-> "associated alpha", compression |-> "uncompressed",
      predictor |-> "none", pixels |-> <<0, 1>>],
     IdleTiff}

\* the tools around the normalization of a unit: all work, the conversion
\* alters a pixel, the conversion tool cannot be started
WatchNormEnvs ==
    {[exif |-> "ok", magick |-> m, compare |-> "count",
      replace |-> ReplaceScript(0, "ok")] :
        m \in {"ok", "altered", "OSError"}}

\* the file names of the events: "incoming_scan.tif", "INCOMING_SCAN.TIF",
\* "notes.tif"
EventNames ==
    {IncomingName,
     <<73, 78, 67, 79, 77, 73, 78, 71, 95, 83, 67, 65, 78, 46, 84, 73, 70>>,
     <<110, 111, 116, 101, 115, 46, 116, 105, 102>>}

\* what the two stitch(files) calls of a validation do, by ladder position
StitchScripts ==
    {<<"full", "fault">>, <<"partial", "fault">>, <<"fault", "full">>,
     <<"empty", "partial">>, <<"fault", "fault">>, <<"empty", "empty">>,
     <<"fault", "empty">>, <<"unsaved", "full">>}

\* the event of a finished scan with every tool working and no preview
PlainEnv ==
    [is_directory |-> FALSE,
     basename     |-> IncomingName,
     rename       |-> RenameScript(0, "PermissionError", "ok"),
     scan_file    |-> CHOOSE f \in ScannedFiles : f # IdleTiff,
     norm         |-> CHOOSE n \in WatchNormEnvs : n.magick = "ok",
     stitcher     |-> TRUE,          \* AffineStitcher is not None
     stitch       |-> <<"full", "fault">>,
     preview      |-> FALSE,         \* save_stitch_preview returned a path
     viewer       |-> "None"]

\* the event and the behaviour of everything on_created calls: PlainEnv
\* varied in the event, the rename, the normalization, the stitcher and the
\* viewer, and one environment that varies several of them
WatchEnvs ==
    {[PlainEnv EXCEPT !.is_directory = TRUE]}
    \cup {[PlainEnv EXCEPT !.basename = b] : b \in EventNames}
    \cup {[PlainEnv EXCEPT !.rename = r] : r \in RenameScripts}
    \cup {[PlainEnv EXCEPT !.norm = n] : n \in WatchNormEnvs}
    \cup {[PlainEnv EXCEPT !.scan_file = IdleTiff]}
    \cup {[PlainEnv EXCEPT !.stitch = s] : s \in StitchScripts}
    \cup {[PlainEnv EXCEPT !.stitcher = FALSE]}
    \cup {[PlainEnv EXCEPT !.preview = TRUE, !.viewer = v] :
              v \in {"process", "None", "raises"}}
    \cup {[PlainEnv EXCEPT !.rename = RenameScript(1, "PermissionError", "ok"),
                           !.scan_file = IdleTiff,
                           !.stitch = <<"fault", "partial">>,
                           !.preview = TRUE, !.viewer = "process"]}

\* the thread of the one Observer main() starts, with a second thread
\* dispatching alongside it
ObserverThreadsTwo == {"observer", "second"}

\* observer = Observer(): its one thread takes the events off the queue
\* and calls the handler for each
ObserverThreads == {"observer"}

\* a dispatching thread outside on_created
IdleFlight ==
    [pc |-> "idle", dir |-> <<>>, first |-> FALSE,
     name |-> [had_retry |-> FALSE, retry_page |-> 0, new_name |-> <<>>],
     unit |-> NoUnit]

\* main() up to observer.start(): the process watches, no unit has run in
\* any directory since it started, the last dispatch was not an ignored
\* event
ReactorStart ==
    [state |-> "watching", fresh |-> WatchDirs, ignored |-> FALSE]

LoopIdle ==
    /\ queue = <<>>
    /\ flight = [t \in ObserverThreads |-> IdleFlight]
    /\ reactor = ReactorStart

SeqIdle ==
    /\ seq_dir = <<65>>
    /\ seq_files = {}
    /\ seq_out = None

NormIdle ==
    /\ tiff = IdleTiff
    /\ norm = NormReport(IdleTiff)

WatchIdle ==
    /\ dirs = [d \in WatchDirs |-> {}]
    /\ retry_pages = EmptyDict
    /\ units = [d \in WatchDirs |-> NoUnit]

\* the subsets of S with at most k elements
RECURSIVE SubsetsUpTo(_, _)
SubsetsUpTo(S, k) ==
    IF k = 0 THEN {{}}
    ELSE LET smaller == SubsetsUpTo(S, k - 1)
         IN  smaller \cup {fs \cup {x} : fs \in smaller, x \in S}

SeqInit ==
    /\ seq_dir \in SeqDirNames
    /\ seq_files \in SubsetsUpTo(SeqNames, MaxFiles)
    /\ seq_out = None
    /\ rn = RenameStart(RenameAttempts, FALSE)
    /\ NormIdle
    /\ WatchIdle
    /\ LoopIdle

\* a call get_next_filename(watch_dir)
SeqNextName ==
    /\ seq_out = None
    /\ seq_out' = GetNextFilename(seq_dir, seq_files)
    /\ UNCHANGED <<seq_dir, seq_files, rn, norm_vars, watch_vars, loop_vars>>

\* the returned name is created in the directory (test_common.py touches it,
\* the watcher renames the incoming file to it)
SeqTouch ==
    /\ seq_out # None
    /\ Cardinality(seq_files) <= MaxFiles
    /\ seq_files' = seq_files \cup {seq_out}
    /\ seq_out' = None
    /\ UNCHANGED <<seq_dir, rn, norm_vars, watch_vars, loop_vars>>

SeqNext == SeqNextName \/ SeqTouch

SeqSpec == SeqInit /\ [][SeqNext]_vars

\* ------------------------------------------------------------------------
\* Properties of the filename sequencer (SeqSpec)

\* the names of the listing that match the filename grammar
GrammarNames(listing) == {f \in listing : FilenameMatch(f).matched}

PageOf(name) == DigitsVal(FilenameMatch(name).page)
ScanOf(name) == DigitsVal(FilenameMatch(name).scan)

\* g is the lexicographically greatest of names
IsGreatest(g, names) == g \in names /\ \A h \in names : h = g \/ LexLess(h, g)

\* (page, scan) of h is numerically at most (page, scan) of g
PageScanLeq(h, g) ==
    \/ PageOf(h) < PageOf(g)
    \/ PageOf(h) = PageOf(g) /\ ScanOf(h) <= ScanOf(g)

\* h and g differ at most in their page and scan digits and in the case of
\* the extension
SameShape(h, g) ==
    /\ FilenameMatch(h).prefix = FilenameMatch(g).prefix
    /\ h[Len(h) - 10] = g[Len(g) - 10]
    /\ h[Len(h) - 6] = g[Len(g) - 6]

\* C8 as stated: with at least one grammar-matching file, nextName is built
\* from the lexicographically greatest matching name (page n, scan s) as
\* page 2 scan 1 if n = 1, page n scan s+1 if n > 1 and s < 2, page n+1
\* scan 1 otherwise, and that name has the numerically greatest (page, scan).
C8_NextNameAsStated ==
    (seq_out # None /\ GrammarNames(seq_files) # {}) =>
        \E g \in GrammarNames(seq_files) :
            /\ IsGreatest(g, GrammarNames(seq_files))
            /\ seq_out =
                  FormatName(FilenameMatch(g).prefix,
                     IF PageOf(g) = 1 THEN 2
                     ELSE IF PageOf(g) > 1 /\ ScanOf(g) < 2 THEN PageOf(g)
                     ELSE PageOf(g) + 1,
                     IF PageOf(g) = 1 THEN 1
                     ELSE IF PageOf(g) > 1 /\ ScanOf(g) < 2 THEN ScanOf(g) + 1
                     ELSE 1)
            /\ \A h \in GrammarNames(seq_files) : PageScanLeq(h, g)

\* C8 amended: the same-page advance applies whenever n # 1 and s < 2 (page
\* 0 included), and the greatest name has the numerically greatest
\* (page, scan) when all matching names share the prefix and the case of
\* the P and S markers.
C8_NextNameAdvance ==
    (seq_out # None /\ GrammarNames(seq_files) # {}) =>
        \E g \in GrammarNames(seq_files) :
            /\ IsGreatest(g, GrammarNames(seq_files))
            /\ seq_out =
                  FormatName(FilenameMatch(g).prefix,
                     IF PageOf(g) = 1 THEN 2
                     ELSE IF ScanOf(g) < 2 THEN PageOf(g)
                     ELSE PageOf(g) + 1,
                     IF PageOf(g) = 1 THEN 1
                     ELSE IF ScanOf(g) < 2 THEN ScanOf(g) + 1
                     ELSE 1)
            /\ (\A h \in GrammarNames(seq_files) : SameShape(h, g))
                  => \A h \in GrammarNames(seq_files) : PageScanLeq(h, g)

\* C8 witness: two matching names of one shape, the greatest one a first
\* scan of page 2, and the sequencer answered "A_P02_S02.tif"
C8_Witness ==
    /\ seq_out = FormatName(<<65>>, 2, 2)
    /\ FormatName(<<65>>, 2, 1) \in seq_files
    /\ FormatName(<<65>>, 0, 2) \in seq_files
    /\ Cardinality(GrammarNames(seq_files)) = 2

\* C9: in a directory with no grammar-matching file nextName is
\* "{prefix}_P01_S01.tif", prefix being the directory name without a
\* trailing "_Archive" (in any letter case, as the matching is).
C9_EmptyDirFirstName ==
    (seq_out # None /\ GrammarNames(seq_files) = {}) =>
        \E k \in 0..Len(seq_dir) :
            /\ seq_out = SubSeq(seq_dir, 1, k)
                  \o <<95, 80, 48, 49, 95, 83, 48, 49, 46, 116, 105, 102>>
            /\ LET ending == SubSeq(seq_dir, k + 1, Len(seq_dir))
                   archive == <<95, 97, 114, 99, 104, 105, 118, 101>>
               IN  \/ LowerStr(ending) = archive
                   \/ /\ ending = <<>>
                      /\ \A j \in 0..Len(seq_dir) :
                            LowerStr(SubSeq(seq_dir, j + 1, Len(seq_dir)))
                               # archive

\* C9 witness: "B_ARCHIVE" holding only malformed names, answered
\* "B_P01_S01.tif"
C9_Witness ==
    /\ seq_dir = <<66, 95, 65, 82, 67, 72, 73, 86, 69>>
    /\ seq_files # {}
    /\ GrammarNames(seq_files) = {}
    /\ seq_out = FormatName(<<66>>, 1, 1)

\* ------------------------------------------------------------------------
\* One call of rename_with_retry, attempt by attempt (RenameSpec)

RenameInit ==
    /\ rn \in {RenameStart(RenameAttempts, l) : l \in BOOLEAN}
    /\ SeqIdle
    /\ NormIdle
    /\ WatchIdle
    /\ LoopIdle

RenameTry ==
    /\ rn.pc = "loop"
    /\ \E outcome \in RenameOutcomes : rn' = RenameAttempt(rn, outcome)
    /\ UNCHANGED <<seq_vars, norm_vars, watch_vars, loop_vars>>

RenameEnd ==
    /\ rn.pc = "after"
    /\ rn' = RenameGiveUp(rn)
    /\ UNCHANGED <<seq_vars, norm_vars, watch_vars, loop_vars>>

RenameNext == RenameTry \/ RenameEnd

RenameSpec == RenameInit /\ [][RenameNext]_vars

\* C10: install makes at most 30 rename attempts, retries only after a
\* permission-denied or not-found failure, stops at the first success
\* returning success, stops at once on any other error class, and after the
\* last failed attempt returns failure as a value.
C10_BoundedRetry ==
    /\ rn.calls <= 30
    /\ rn.retried_after \subseteq {"PermissionError", "FileNotFoundError"}
    /\ rn.last_outcome = "ok" =>
          rn.pc = "returned" /\ rn.result = "True" /\ rn.moved
    /\ rn.last_outcome = "OtherError" => rn.pc # "loop"
    /\ rn.calls >= 30 => rn.pc # "loop"
    /\ rn.pc = "loop" => rn.result = "None"
    /\ (rn.pc = "returned" /\ rn.last_outcome # "ok") =>
          rn.result = "False" /\ ~rn.moved
    /\ (rn.result = "False" /\ rn.last_outcome \in TransientErrors) =>
          rn.calls = 30

\* C10 witness: thirty failed attempts of both transient kinds, then False
C10_Witness ==
    /\ rn.pc = "returned"
    /\ rn.calls = 30
    /\ rn.result = "False"
    /\ rn.retried_after = {"PermissionError", "FileNotFoundError"}

\* ------------------------------------------------------------------------
\* Calls of process_tiff_in_place on one path (NormSpec)

NormInit ==
    /\ tiff \in TiffFiles
    /\ norm = NormReport(tiff)
    /\ SeqIdle
    /\ rn = RenameStart(RenameAttempts, FALSE)
    /\ WatchIdle
    /\ LoopIdle

\* a call process_tiff_in_place(tiff_path)
NormCall ==
    /\ \E env \in NormEnvs :
          LET r == ProcessTiffInPlace(tiff, env)
          IN  /\ tiff' = r.file
              /\ norm' = [r.report EXCEPT !.prev_result = norm.result,
                                          !.prev_replaced = norm.replaced]
    /\ UNCHANGED <<seq_vars, rn, watch_vars, loop_vars>>

NormNext == NormCall

NormSpec == NormInit /\ [][NormNext]_vars

\* alpha-free, canonical compression, canonical predictor
Canonical(file) ==
    /\ file.extra \in {"none", "unspecified"}
    /\ file.compression = "lzw"
    /\ file.predictor = "horizontal differencing"

\* the call wrote something: a temporary file, a conversion or a replace
Wrote(report) ==
    \/ report.temp_created
    \/ report.converted
    \/ report.replace_calls > 0
    \/ report.replaced

\* C6: whenever normalize returns failure or raises, the file at the path
\* is the one from before the call; the original is replaced only after the
\* pixel comparison reported exactly zero difference.
C6_OriginalKept ==
    /\ (norm.called /\ norm.result \in {"False", "raised"}) =>
          (tiff = norm.before /\ ~norm.replaced /\ norm.replace_calls
              <= ReplaceAttempts)
    /\ (norm.called /\ (norm.replaced \/ norm.replace_calls > 0)) =>
          /\ norm.compared
          /\ Len(norm.stderr) > 0
          /\ norm.stderr[1] = [int |-> TRUE, val |-> 0]
    /\ (norm.called /\ tiff # norm.before) => norm.replaced

\* C6 witness: the conversion altered a pixel, the comparison counted 1,
\* the call returned False
C6_Witness ==
    /\ norm.called
    /\ norm.result = "False"
    /\ norm.compared
    /\ norm.stderr = <<[int |-> TRUE, val |-> 1]>>
    /\ ~Canonical(norm.before)

Init ==
    /\ dirs = [d \in WatchDirs |-> {}]
    /\ retry_pages = EmptyDict
    /\ units = [d \in WatchDirs |-> NoUnit]
    /\ SeqIdle
    /\ rn = RenameStart(RenameAttempts, FALSE)
    /\ NormIdle
    /\ LoopIdle

\* the stitching package warns of a partial panorama only when it keeps at
\* least two of the inputs, so only with three or more files
StitchFeasible(unit) ==
    \A i \in 1..Len(unit.stitch_calls) :
        unit.stitch_calls[i].outcome = "partial" => Len(unit.files) >= 3

\* a creation event in watch directory d, handled by on_created
OnCreated(d) ==
    /\ \E env \in WatchEnvs :
          \E r \in {HandleCreated(d, dirs[d], retry_pages, env)} :
              /\ r.unit.started =>
                    /\ DigitsVal(PageScanSearch(r.unit.new_name).page)
                          <= MaxPage
                    /\ DigitsVal(PageScanSearch(r.unit.new_name).scan)
                          <= MaxScan
                    /\ StitchFeasible(r.unit)
              /\ dirs' = [dirs EXCEPT ![d] = r.listing]
              /\ retry_pages' = r.retry
              /\ units' = IF r.unit.started
                          THEN [units EXCEPT ![d] = r.unit] ELSE units
    /\ UNCHANGED <<seq_vars, rn, norm_vars, loop_vars>>

Next == \E d \in WatchDirs : OnCreated(d)

Spec == Init /\ [][Next]_vars

\* ------------------------------------------------------------------------
\* Retry state and unit outcomes

\* the greatest scan number among the grammar names of page p, 0 for none
GreatestScan(listing, p) ==
    LET scans == {ScanOf(f) : f \in {g \in GrammarNames(listing) : PageOf(g) = p}}
    IN  IF scans = {} THEN 0 ELSE CHOOSE n \in scans : \A m \in scans : m <= n

\* the directory's retry entry is what it was when the unit started
RetrySame(d, u) ==
    /\ (d \in DOMAIN retry_pages) = u.had_retry
    /\ u.had_retry => retry_pages[d] = u.retry_page

\* the terminal status lines of a unit that name its file
TerminalLines(u) ==
    {i \in 1..Len(u.log) :
        /\ u.log[i].text \in {"OK", "ERROR", "STITCH FAILED"}
        /\ u.log[i].name = u.new_name}

\* the stitch calls of a unit that returned a panorama
Completing(u) ==
    {i \in 1..Len(u.stitch_calls) :
        u.stitch_calls[i].outcome \in {"full", "partial"}}

\* C1: a unit of a directory without a retry entry that installs a scan of
\* page p, finds two or more scans of p and fails validation leaves the
\* entry p; a unit that starts with the entry p is named page p with the
\* scan number one above the greatest scan of p in the directory, and that
\* is the name it is installed under.
C1_RetrySlot ==
    \A d \in WatchDirs :
        LET u == units[d]
        IN  /\ (u.started /\ ~u.had_retry /\ u.validate_called
                    /\ u.success = "False")
                  => /\ Len(u.files) >= 2
                     /\ d \in DOMAIN retry_pages
                     /\ retry_pages[d] = PageOf(u.new_name)
            /\ (u.started /\ u.had_retry)
                  => /\ u.new_name =
                            FormatName(DerivePrefix(d), u.retry_page,
                                       GreatestScan(u.before, u.retry_page) + 1)
                     /\ u.renamed => u.new_name \in dirs[d]

\* a unit that started with a retry entry was installed above two scans
C1_Witness ==
    \E d \in WatchDirs :
        /\ units[d].started /\ units[d].had_retry /\ units[d].renamed
        /\ GreatestScan(units[d].before, units[d].retry_page) >= 2
        /\ units[d].new_name \in dirs[d]

\* C2: after a unit that started with the retry entry p and whose
\* validation succeeded the directory has no retry entry, and the next unit
\* of the directory is named page p+1, scan 1 without a retry entry.
C2_RecoveryAdvances ==
    /\ [](\A d \in WatchDirs :
            (units[d].started /\ units[d].had_retry
                /\ units[d].validate_called /\ units[d].success = "True")
              => d \notin DOMAIN retry_pages)
    /\ [][\A d \in WatchDirs :
            (units[d].started /\ units[d].had_retry
                /\ units[d].success = "True")
              => /\ ~units'[d].had_retry
                 /\ units'[d].new_name =
                        FormatName(DerivePrefix(d), units[d].retry_page + 1, 1)]_vars

\* the unit after a recovery: page 3, scan 1 above a page 2 of three scans
C2_Witness ==
    \E d \in WatchDirs :
        /\ units[d].started /\ ~units[d].had_retry
        /\ units[d].new_name = FormatName(DerivePrefix(d), 3, 1)
        /\ GreatestScan(units[d].before, 2) >= 3
        /\ d \notin DOMAIN retry_pages

\* C3: a validation in which every stitch call that returned a panorama
\* left out an input is a failure: the unit ends STITCH FAILED, not OK, and
\* the directory has a retry entry.
C3_PartialIsFailure ==
    \A d \in WatchDirs :
        LET u == units[d]
        IN  (/\ u.validate_called
             /\ Completing(u) # {}
             /\ \A i \in Completing(u) : u.stitch_calls[i].outcome = "partial")
              => /\ u.success = "False"
                 /\ d \in DOMAIN retry_pages
                 /\ \A i \in TerminalLines(u) :
                        u.log[i].text = "STITCH FAILED"

\* C4: every started unit has logged exactly one terminal status line that
\* names its file.
C4_OneTerminalLine ==
    \A d \in WatchDirs :
        units[d].started => Cardinality(TerminalLines(units[d])) = 1

\* C5: a unit whose rename returned False called neither the normalizer nor
\* the validator, a unit whose normalization returned False did not call
\* the validator, and in both the retry entry is what it was before.
C5_FailureStops ==
    \A d \in WatchDirs :
        LET u == units[d]
        IN  /\ (u.started /\ u.rename_called /\ ~u.renamed)
                  => /\ ~u.process_called
                     /\ ~u.validate_called
                     /\ RetrySame(d, u)
            /\ (u.started /\ u.process_result = "False")
                  => /\ ~u.validate_called
                     /\ RetrySame(d, u)

\* a rename that failed while the directory had a retry entry
C5_Witness ==
    \E d \in WatchDirs :
        /\ units[d].started /\ units[d].rename_called /\ ~units[d].renamed
        /\ units[d].had_retry
        /\ d \in DOMAIN retry_pages

\* the log_error_fn calls of a unit
ErrorLines(u) == {i \in 1..Len(u.log) : u.log[i].fn = "log_error"}

\* the alert_fn calls of a unit
AlertCalls(u) == {i \in 1..Len(u.log) : u.log[i].fn = "alert_fn"}

\* the unit ended with the one status line text for its file
EndedWith(u, text) ==
    /\ Cardinality(TerminalLines(u)) = 1
    /\ Len(u.log) \in TerminalLines(u)
    /\ u.log[Len(u.log)].text = text

\* C11: a unit whose rename and normalization succeeded and whose page has
\* fewer than 2 scans in the directory called neither the validator nor the
\* stitcher, ended OK, logged no error, raised no alert and left the retry
\* entry as it was.
C11_SingleScanNoStitch ==
    \A d \in WatchDirs :
        LET u == units[d]
        IN  (u.started /\ u.renamed /\ u.process_result = "True"
                /\ Len(ListPageScansForPage(d, dirs[d], PageOf(u.new_name))) < 2)
              => /\ ~u.validate_called
                 /\ u.stitch_calls = <<>>
                 /\ EndedWith(u, "OK")
                 /\ ErrorLines(u) = {}
                 /\ AlertCalls(u) = {} /\ u.alerts = 0
                 /\ u.viewer_calls = 0
                 /\ RetrySame(d, u)

\* the first scan of page 2: one file of the page, no validation, OK
C11_Witness ==
    \E d \in WatchDirs :
        /\ units[d].started /\ units[d].renamed
        /\ units[d].process_result = "True"
        /\ units[d].new_name = FormatName(DerivePrefix(d), 2, 1)
        /\ Len(units[d].files) = 1
        /\ EndedWith(units[d], "OK")

\* the texts of the terminal status lines of a unit
Outcomes(u) == {u.log[i].text : i \in TerminalLines(u)}

\* C12: a unit that ends STITCH FAILED called the alert exactly once, and
\* not after its status line; a unit that ends OK or ERROR did not call it.
C12_AlertOnFailure ==
    \A d \in WatchDirs :
        LET u == units[d]
        IN  /\ (u.started /\ Outcomes(u) = {"STITCH FAILED"})
                  => /\ Cardinality(AlertCalls(u)) = 1
                     /\ u.alerts = 1
                     /\ \A i \in AlertCalls(u) :
                            \A j \in TerminalLines(u) : i <= j
            /\ (u.started /\ Outcomes(u) \cap {"OK", "ERROR"} # {})
                  => /\ AlertCalls(u) = {}
                     /\ u.alerts = 0

\* a unit that alerted and then logged STITCH FAILED
C12_Witness ==
    \E d \in WatchDirs :
        /\ units[d].started
        /\ Outcomes(units[d]) = {"STITCH FAILED"}
        /\ units[d].alerts = 1
        /\ AlertCalls(units[d]) # {}

\* ------------------------------------------------------------------------
\* The reactor: main(), the observer's queue and its dispatching thread
\* (ReactorSpec)

MaxQueue == 1

\* the creation events the observer is notified of: a directory named like
\* the sentinel, "notes.tif", "incoming_scan.tif"
WatchEvents ==
    {[dir |-> d, is_directory |-> k[1], basename |-> k[2]] :
        d \in WatchDirs,
        k \in {<<TRUE, IncomingName>>,
               <<FALSE, <<110, 111, 116, 101, 115, 46, 116, 105, 102>>>>,
               <<FALSE, IncomingName>>}}

\* what a unit of the reactor meets: every tool working, a rename that
\* never succeeds, a conversion that alters a pixel, a stitch that fails,
\* no stitching package
ReactorEnvs ==
    {PlainEnv,
     [PlainEnv EXCEPT !.rename =
                          RenameScript(RenameAttempts, "FileNotFoundError", "ok")],
     [PlainEnv EXCEPT !.norm = CHOOSE n \in WatchNormEnvs : n.magick = "altered"],
     [PlainEnv EXCEPT !.stitch = <<"fault", "fault">>],
     [PlainEnv EXCEPT !.stitcher = FALSE]}

\* the threads that hold a lock on retry_pages: IncomingScanHandler creates
\* no lock and on_created acquires none
MapLockHolders == {}

\* a handler created by a process that kept the retry_pages of the last one
NewHandlerRetryPagesKept(old) == old

\* IncomingScanHandler(): self.retry_pages = {}, whatever the dict of the
\* previous process held
NewHandlerRetryPages(old) == EmptyDict

ReactorInit ==
    /\ SeqIdle
    /\ rn = RenameStart(RenameAttempts, FALSE)
    /\ NormIdle
    /\ WatchIdle
    /\ LoopIdle

\* the emitter of the scheduled watch queues a creation event
Notify ==
    /\ reactor.state = "watching"
    /\ Len(queue) < MaxQueue
    /\ \E ev \in WatchEvents : queue' = Append(queue, ev)
    /\ reactor' = [reactor EXCEPT !.ignored = FALSE]
    /\ UNCHANGED <<seq_vars, rn, norm_vars, watch_vars, flight>>

\* thread t takes the next event and calls on_created: lines 223-228, up
\* to the end of sleep_fn(2.0)
Take(t) ==
    /\ reactor.state = "watching"
    /\ flight[t].pc = "idle"
    /\ queue # <<>>
    /\ queue' = Tail(queue)
    /\ flight' = IF Ignored(Head(queue)) THEN flight
                  ELSE [flight EXCEPT ![t] =
                           [IdleFlight EXCEPT !.pc = "slept",
                                              !.dir = Head(queue).dir]]
    /\ reactor' = [reactor EXCEPT !.ignored = Ignored(Head(queue))]
    /\ UNCHANGED <<seq_vars, rn, norm_vars, watch_vars>>

\* lines 229-234: thread t reads retry_pages and the directory and chooses
\* the name
Name(t) ==
    /\ flight[t].pc = "slept"
    /\ \E nm \in {NameUnit(flight[t].dir,
                             dirs[flight[t].dir] \cup {IncomingName},
                             retry_pages)} :
          /\ DigitsVal(PageScanSearch(nm.new_name).page) <= MaxPage
          /\ DigitsVal(PageScanSearch(nm.new_name).scan) <= MaxScan
          /\ flight' = [flight EXCEPT ![t] =
                            [@ EXCEPT !.pc = "named", !.name = nm,
                                      !.first =
                                          (flight[t].dir \in reactor.fresh)]]
    /\ reactor' = [reactor EXCEPT !.fresh = @ \ {flight[t].dir}]
    /\ UNCHANGED <<seq_vars, rn, norm_vars, watch_vars, queue>>

\* lines 236-241: thread t renames the sentinel file; the unit is over when
\* rename_fn returned False
Install(t) ==
    /\ flight[t].pc = "named"
    /\ \E env \in ReactorEnvs :
          \E i \in {InstallUnit(flight[t].dir,
                                 dirs[flight[t].dir] \cup {IncomingName},
                                 flight[t].name, env)} :
              /\ dirs' = [dirs EXCEPT ![flight[t].dir] = i.listing]
              /\ IF AfterInstall(i.unit.renamed)
                 THEN /\ flight' = [flight EXCEPT ![t] =
                                       [@ EXCEPT !.pc = "installed",
                                                 !.unit = i.unit]]
                      /\ units' = units
                 ELSE /\ flight' = [flight EXCEPT ![t] = IdleFlight]
                      /\ units' = [units EXCEPT ![flight[t].dir] = i.unit]
    /\ UNCHANGED <<seq_vars, rn, norm_vars, retry_pages, queue, reactor>>

\* lines 243-268: thread t normalizes and validates, updates retry_pages
\* and logs; an exception that leaves on_created ends the thread
Complete(t) ==
    /\ flight[t].pc = "installed"
    /\ \E env \in ReactorEnvs :
          \E r \in {AfterInstalled(flight[t].dir, dirs[flight[t].dir],
                                   retry_pages, flight[t].unit, env)} :
              /\ StitchFeasible(r.unit)
              /\ dirs' = [dirs EXCEPT ![flight[t].dir] = r.listing]
              /\ retry_pages' = r.retry
              /\ units' = [units EXCEPT ![flight[t].dir] = r.unit]
              /\ flight' = [flight EXCEPT ![t] =
                                IF r.unit.raised
                                THEN [IdleFlight EXCEPT !.pc = "dead"]
                                ELSE IdleFlight]
    /\ UNCHANGED <<seq_vars, rn, norm_vars, queue, reactor>>

\* KeyboardInterrupt in main(): observer.stop()
Interrupt ==
    /\ reactor.state = "watching"
    /\ reactor' = [reactor EXCEPT !.state = "stopping", !.ignored = FALSE]
    /\ UNCHANGED <<seq_vars, rn, norm_vars, watch_vars, queue, flight>>

\* observer.join() returns once no thread is inside the handler; main()
\* returns
Exit ==
    /\ reactor.state = "stopping"
    /\ \A t \in ObserverThreads : flight[t].pc \in {"idle", "dead"}
    /\ reactor' = [reactor EXCEPT !.state = "exited"]
    /\ UNCHANGED <<seq_vars, rn, norm_vars, watch_vars, queue, flight>>

\* the script is run again: a new handler, a new observer
Start ==
    /\ reactor.state = "exited"
    /\ reactor' = ReactorStart
    /\ retry_pages' = NewHandlerRetryPages(retry_pages)
    /\ queue' = <<>>
    /\ flight' = [t \in ObserverThreads |-> IdleFlight]
    /\ UNCHANGED <<seq_vars, rn, norm_vars, dirs, units>>

ReactorNext ==
    \/ Notify
    \/ \E t \in ObserverThreads : Take(t)
    \/ \E t \in ObserverThreads : Name(t)
    \/ \E t \in ObserverThreads : Install(t)
    \/ \E t \in ObserverThreads : Complete(t)
    \/ Interrupt
    \/ Exit
    \/ Start

ReactorSpec == ReactorInit /\ [][ReactorNext]_vars

\* C13: a creation event for a directory, or for a file whose base name is
\* not the sentinel name compared without case, starts no unit: the call
\* returns without a wait, a rename, a normalization, a validation, a
\* viewer, a status line or a change of retry_pages.
C13_IgnoredStartsNothing ==
    [][(/\ reactor.state = "watching"
        /\ queue # <<>>
        /\ queue' = Tail(queue)
        /\ \/ Head(queue).is_directory
           \/ LowerStr(Head(queue).basename) # LowerStr(IncomingName))
       => UNCHANGED <<dirs, retry_pages, units, flight>>]_vars

C13_Witness ==
    /\ reactor.ignored
    /\ retry_pages # EmptyDict
    /\ \E d \in WatchDirs : units[d].started

\* C14: the units of one watched directory never overlap: at most one call
\* of on_created is between its wait and its last line for a directory, and
\* the name a unit chose is still free in the directory when the unit
\* installs it, so no two events choose the same name from the same state.
C14_UnitsSerialized ==
    /\ [](\A d \in WatchDirs :
            Cardinality({t \in DOMAIN flight :
                            /\ flight[t].pc \in {"slept", "named", "installed"}
                            /\ flight[t].dir = d}) <= 1)
    /\ [][\A t \in DOMAIN flight :
              (flight[t].pc = "named" /\ flight'[t].pc # "named")
              => flight[t].name.new_name \notin dirs[flight[t].dir]]_vars

C14_Witness ==
    \E t \in DOMAIN flight :
        /\ flight[t].pc = "installed"
        /\ queue # <<>>
        /\ ~Head(queue).is_directory
        /\ Head(queue).basename = IncomingName
        /\ Head(queue).dir = flight[t].dir
        /\ dirs[flight[t].dir] # {flight[t].unit.new_name}

\* C15: when the process has exited after the interrupt, every unit that
\* installed its file has logged exactly one of the terminal status lines
\* OK, ERROR, STITCH FAILED for it.
C15_InFlightUnitFinishes ==
    reactor.state = "exited"
    => \A d \in WatchDirs :
           (units[d].started /\ units[d].renamed)
           => Cardinality(Outcomes(units[d])) = 1

\* C16: no exception leaves on_created: a unit whose external tool failed
\* unexpectedly (conversion tool missing or crashing, inspection failing,
\* no stitching package for a page of two or more scans) still returns.
C16_FailureContained ==
    \A d \in WatchDirs : units[d].started => ~units[d].raised

\* C17: a unit whose validation succeeded and that called the viewer ends
\* OK whether or not the launch worked: no exception leaves the handler and
\* "OK" is its one status line.
C17_ViewerFailureHarmless ==
    \A d \in WatchDirs :
        LET u == units[d]
        IN  (u.started /\ u.success = "True" /\ u.viewer_calls = 1)
            => /\ ~u.raised
               /\ EndedWith(u, "OK")

\* ------------------------------------------------------------------------
\* The watcher over a directory that also holds a file outside the filename
\* grammar (StraySpec)

\* "A_P02_S03x.tif": FILENAME_PATTERN does not match it, PAGE_SCAN_RE finds
\* page 2, scan 3 in it
StrayNames ==
    {<<65, 95, 80, 48, 50, 95, 83, 48, 51, 120, 46, 116, 105, 102>>}

StrayInit ==
    /\ dirs = [d \in WatchDirs |-> StrayNames]
    /\ retry_pages = EmptyDict
    /\ units = [d \in WatchDirs |-> NoUnit]
    /\ SeqIdle
    /\ rn = RenameStart(RenameAttempts, FALSE)
    /\ NormIdle
    /\ LoopIdle

StraySpec == StrayInit /\ [][Next]_vars

\* C18: the name of every unit is the name the sequencer, or the retry
\* slot, gives for the grammar files of the directory alone, and every file
\* handed to the stitch validator is a grammar file of the directory.
C18_StrayFilesIgnored ==
    \A d \in WatchDirs :
        LET u == units[d]
            g == ValidFiles(u.before)
        IN  u.started
            => /\ u.new_name = IF u.had_retry
                               THEN GetRetryFilename(d, g, u.retry_page)
                               ELSE GetNextFilename(d, g)
               /\ \A i \in 1..Len(u.files) :
                      \E f \in ValidFiles(u.before \cup {u.new_name}) :
                          u.files[i] = PathOf(d, f)

\* C19: when a unit installs its file as scan 1 of page p+1, p >= 2, while
\* page p holds two or more scans, and the unit before it installed a scan
\* of page p, that unit ran the stitch validator on all the scans of page p
\* and the validator succeeded.
C19_NoAdvanceUnvalidated ==
    [][\A d \in WatchDirs :
          LET u == units[d]
              n == units'[d]
          IN  (/\ n.started /\ n.renamed
               /\ u.started /\ u.renamed
               /\ DigitsVal(PageScanSearch(n.new_name).scan) = 1
               /\ DigitsVal(PageScanSearch(u.new_name).page) >= 2
               /\ DigitsVal(PageScanSearch(n.new_name).page)
                      = DigitsVal(PageScanSearch(u.new_name).page) + 1
               /\ Len(ListPageScansForPage(d, dirs[d],
                          DigitsVal(PageScanSearch(u.new_name).page))) >= 2)
              => /\ u.validate_called
                 /\ u.success = "True"
                 /\ u.files = ListPageScansForPage(d, dirs[d],
                        DigitsVal(PageScanSearch(u.new_name).page))]_vars

\* C20: a directory that had no unit since the process started has no
\* retry entry, and the first unit after the start reads none and takes the
\* name get_next_filename gives for the directory, whatever retry_pages
\* held when the previous process exited.
C20_RestartForgetsRetry ==
    /\ [](\A d \in reactor.fresh : d \notin DOMAIN retry_pages)
    /\ [][\A t \in DOMAIN flight :
              (/\ flight[t].pc = "slept"
               /\ flight'[t].pc = "named"
               /\ flight[t].dir \in reactor.fresh)
              => /\ ~flight'[t].name.had_retry
                 /\ flight'[t].name.new_name =
                        GetNextFilename(flight[t].dir,
                            dirs[flight[t].dir] \cup {IncomingName})]_vars

C20_Witness ==
    \E t \in DOMAIN flight :
        LET u == units[flight[t].dir]
        IN  /\ flight[t].pc = "named"
            /\ flight[t].first
            /\ u.started
            /\ Outcomes(u) = {"STITCH FAILED"}
            /\ flight[t].name.new_name =
                   FormatName(DerivePrefix(flight[t].dir), u.page_num + 1, 1)

\* ------------------------------------------------------------------------
\* The replace step of process_tiff_in_place (NormSpec)

\* C21 as stated: the replace step follows the policy of rename_with_retry:
\* it tries again after every PermissionError and every FileNotFoundError
\* until RenameAttempts calls were made, stops at once on any other error,
\* and returns False when no call succeeded.
C21_ReplaceLikeRename ==
    norm.compared /\ norm.result # "raised" /\ norm.replace_calls > 0
    => /\ norm.replace_calls <= RenameAttempts
       /\ \A i \in 1..norm.replace_calls :
              /\ (norm.replace_ends[i] \in TransientErrors /\ i < RenameAttempts)
                     => i < norm.replace_calls
              /\ norm.replace_ends[i] \notin TransientErrors
                     => i = norm.replace_calls
       /\ ~norm.replaced => norm.result = "False"

\* C21: the replace step makes at most 10 calls, tries again only after a
\* PermissionError, stops at once on any other error, FileNotFoundError
\* included, and returns False, the original kept, when no call succeeded.
C21_ReplaceOwnPolicy ==
    norm.compared /\ norm.result # "raised" /\ norm.replace_calls > 0
    => /\ norm.replace_calls <= 10
       /\ \A i \in 1..norm.replace_calls :
              /\ (norm.replace_ends[i] = "PermissionError" /\ i < 10)
                     => i < norm.replace_calls
              /\ norm.replace_ends[i] # "PermissionError"
                     => i = norm.replace_calls
       /\ ~norm.replaced => (norm.result = "False" /\ tiff = norm.before)

C21_Witness ==
    /\ norm.replace_ends = <<"PermissionError", "FileNotFoundError">>
    /\ norm.result = "False"
    /\ tiff = norm.before

\* ------------------------------------------------------------------------
\* The ladder of validate_stitch (Spec)

\* C22: a validation of two or more files calls sift at 0.3 first and brisk
\* at 0.1 second; it goes to the second only when the first raised or gave
\* an empty result, returns True at the first configuration that gave a
\* panorama, and returns False only after both were tried.
C22_LadderInOrder ==
    \A d \in WatchDirs :
        LET u == units[d]
            c == u.stitch_calls
        IN  (u.started /\ u.validate_called /\ u.success \in {"True", "False"})
            => /\ Len(u.files) >= 2
               /\ Len(c) \in 1..2
               /\ c[1].cfg = [detector |-> "sift", confidence_tenths |-> 3]
               /\ Len(c) = 2 =>
                      /\ c[2].cfg = [detector |-> "brisk",
                                     confidence_tenths |-> 1]
                      /\ c[1].outcome \notin {"full", "partial"}
               /\ u.success = "True"
                      <=> c[Len(c)].outcome \in {"full", "partial"}
               /\ u.success = "False" => Len(c) = 2

C22_Witness ==
    \E d \in WatchDirs :
        /\ units[d].success = "True"
        /\ Len(units[d].stitch_calls) = 2
        /\ units[d].stitch_calls[1].outcome = "fault"
        /\ units[d].stitch_calls[2].outcome = "full"

\* ------------------------------------------------------------------------
\* Access to retry_pages (ReactorSpec)

\* C23: a thread that reads retry_pages for its directory (line 230) or
\* writes the entry of its directory (lines 258, 264) holds the lock of the
\* map while it does.
C23_MapAccessLocked ==
    [][\A t \in DOMAIN flight :
          (\/ flight[t].pc = "slept" /\ flight'[t].pc = "named"
           \/ /\ flight[t].pc = "installed"
              /\ flight'[t].pc # "installed"
              /\ retry_pages' # retry_pages)
          => t \in MapLockHolders]_vars

\* ------------------------------------------------------------------------
\* Changes of retry_pages (ReactorSpec)

\* C24 as stated: the entry of a directory changes only in a unit of that directory
\* that called the validator: it is set, to the page of the unit, only when
\* the validation failed, and removed only when a validation of the
\* recorded page succeeded; an entry for page p is never replaced by an
\* entry for another page.
C24_RetryChangesOnVerdict ==
    [][\A d \in WatchDirs :
          LET n   == units'[d]
              had == d \in DOMAIN retry_pages
              has == d \in DOMAIN retry_pages'
          IN  /\ (has /\ (~had \/ retry_pages'[d] # retry_pages[d]))
                    => /\ n.started /\ n.validate_called
                       /\ n.success = "False"
                       /\ retry_pages'[d] = n.page_num
                       /\ ~had
              /\ (had /\ ~has)
                    => /\ n.started /\ n.validate_called
                       /\ n.success = "True"
                       /\ n.page_num = retry_pages[d]]_vars

\* C24: within one run of the process the entry of a directory changes only
\* in a unit of that directory that called the validator, set to the page
\* of the unit by a failed validation and removed by a successful
\* validation of the recorded page, never replaced by another page; the
\* one other change is the start of a new process, which begins with no
\* entry at all.
C24_RetryChangesOnVerdictOrStart ==
    [][IF reactor.state = "exited" /\ reactor'.state = "watching"
       THEN retry_pages' = EmptyDict
       ELSE \A d \in WatchDirs :
              LET n   == units'[d]
                  had == d \in DOMAIN retry_pages
                  has == d \in DOMAIN retry_pages'
              IN  /\ (has /\ (~had \/ retry_pages'[d] # retry_pages[d]))
                        => /\ n.started /\ n.validate_called
                           /\ n.success = "False"
                           /\ retry_pages'[d] = n.page_num
                           /\ ~had
                  /\ (had /\ ~has)
                        => /\ n.started /\ n.validate_called
                           /\ n.success = "True"
                           /\ n.page_num = retry_pages[d]]_vars

C24_Witness ==
    \E d \in WatchDirs :
        /\ reactor.state = "watching"
        /\ d \in reactor.fresh
        /\ units[d].started
        /\ Outcomes(units[d]) = {"STITCH FAILED"}
        /\ d \notin DOMAIN retry_pages

\* ------------------------------------------------------------------------
\* The names in a directory the watcher filled (Spec)

\* C25: between units no two installed files of a directory have the same
\* page and scan, and the scan numbers installed for a page are 1..k.
C25_ScansContiguous ==
    \A d \in WatchDirs :
        LET installed == dirs[d] \ {IncomingName}
        IN  /\ installed = GrammarNames(installed)
            /\ \A f, g \in installed :
                   (PageOf(f) = PageOf(g) /\ ScanOf(f) = ScanOf(g)) => f = g
            /\ \A f \in installed :
                   \A n \in 1..ScanOf(f) :
                       \E g \in installed :
                           PageOf(g) = PageOf(f) /\ ScanOf(g) = n

C25_Witness ==
    \E d \in WatchDirs :
        /\ GreatestScan(dirs[d], 2) = 3
        /\ GreatestScan(dirs[d], 3) = 2
        /\ IncomingName \notin dirs[d]

\* C26: page 1 never holds more than one scan, and a unit installed a third
\* or later scan of a page only when retry_pages held that page for the
\* directory when the unit read it.
C26_ThirdScanOnlyByRetry ==
    \A d \in WatchDirs :
        /\ GreatestScan(dirs[d], 1) <= 1
        /\ (units[d].started /\ units[d].renamed
               /\ ScanOf(units[d].new_name) >= 3)
              => /\ units[d].had_retry
                 /\ units[d].retry_page = PageOf(units[d].new_name)
                 /\ PageOf(units[d].new_name) >= 2

C26_Witness ==
    \E d \in WatchDirs :
        /\ units[d].started /\ units[d].renamed
        /\ ScanOf(units[d].new_name) = 4
        /\ GreatestScan(dirs[d], 1) = 1

\* ------------------------------------------------------------------------
\* One handler scheduled on two watch directories (PairSpec)

\* "A_Archive" and "B_Archive"
PairDirs ==
    {<<65, 95, 65, 114, 99, 104, 105, 118, 101>>,
     <<66, 95, 65, 114, 99, 104, 105, 118, 101>>}

\* what a unit meets: every tool working, a rename that never succeeds, a
\* conversion that alters a pixel, a stitch that fails, no stitching package
PairEnvs ==
    {PlainEnv,
     [PlainEnv EXCEPT !.rename =
                          RenameScript(RenameAttempts, "FileNotFoundError", "ok")],
     [PlainEnv EXCEPT !.norm = CHOOSE n \in WatchNormEnvs : n.magick = "altered"],
     [PlainEnv EXCEPT !.stitch = <<"fault", "fault">>],
     [PlainEnv EXCEPT !.stitcher = FALSE]}

PairInit ==
    /\ dirs = [d \in PairDirs |-> {}]
    /\ retry_pages = EmptyDict
    /\ units = [d \in PairDirs |-> NoUnit]
    /\ SeqIdle
    /\ rn = RenameStart(RenameAttempts, FALSE)
    /\ NormIdle
    /\ LoopIdle

\* a creation event of incoming_scan.tif in watch directory d, which
\* holds at most MaxFiles + 1 scans
PairOnCreated(d) ==
    /\ Cardinality(dirs[d] \ {IncomingName}) <= MaxFiles + 1
    /\ \E env \in PairEnvs :
          \E r \in {HandleCreated(d, dirs[d], retry_pages, env)} :
              /\ DigitsVal(PageScanSearch(r.unit.new_name).page) <= MaxPage
              /\ DigitsVal(PageScanSearch(r.unit.new_name).scan) <= MaxScan
              /\ dirs' = [dirs EXCEPT ![d] = r.listing]
              /\ retry_pages' = r.retry
              /\ units' = [units EXCEPT ![d] = r.unit]
    /\ UNCHANGED <<seq_vars, rn, norm_vars, loop_vars>>

PairNext == \E d \in PairDirs : PairOnCreated(d)

PairSpec == PairInit /\ [][PairNext]_vars

\* C27: a unit of one watch directory leaves the files and the retry entry
\* of every other watch directory as they were, however the unit ended.
C27_OtherDirectoriesUntouched ==
    [][\A a, b \in PairDirs :
          (a # b /\ units'[a] # units[a])
          => /\ dirs'[b] = dirs[b]
             /\ (b \in DOMAIN retry_pages') = (b \in DOMAIN retry_pages)
             /\ b \in DOMAIN retry_pages => retry_pages'[b] = retry_pages[b]]_vars

C27_Witness ==
    \E a, b \in PairDirs :
        /\ a # b
        /\ b \in DOMAIN retry_pages
        /\ a \in DOMAIN retry_pages
        /\ retry_pages[a] = 2
        /\ Outcomes(units[a]) = {"STITCH FAILED"}
        /\ Outcomes(units[b]) = {"STITCH FAILED"}

\* ------------------------------------------------------------------------
\* The watcher at the end of the two-digit page numbers (OverflowSpec)

\* a watch directory whose last scan is "A_P98_S01.tif"
OverflowInit ==
    /\ dirs = [d \in WatchDirs |->
                  {FormatName(DerivePrefix(d), 98, 1)}]
    /\ retry_pages = EmptyDict
    /\ units = [d \in WatchDirs |-> NoUnit]
    /\ SeqIdle
    /\ rn = RenameStart(RenameAttempts, FALSE)
    /\ NormIdle
    /\ LoopIdle

\* a creation event in watch directory d, which holds at most
\* MaxFiles + 3 scans, handled by on_created
OverflowOnCreated(d) ==
    /\ Cardinality(dirs[d] \ {IncomingName}) <= MaxFiles + 3
    /\ \E env \in WatchEnvs :
          \E r \in {HandleCreated(d, dirs[d], retry_pages, env)} :
              /\ r.unit.started
              /\ StitchFeasible(r.unit)
              /\ dirs' = [dirs EXCEPT ![d] = r.listing]
              /\ retry_pages' = r.retry
              /\ units' = [units EXCEPT ![d] = r.unit]
    /\ UNCHANGED <<seq_vars, rn, norm_vars, loop_vars>>

OverflowNext == \E d \in WatchDirs : OverflowOnCreated(d)

OverflowSpec == OverflowInit /\ [][OverflowNext]_vars

\* C28: the name a unit chose is not the name of a file that was in the
\* directory, and it matches FILENAME_PATTERN, so the next sequencing sees
\* the installed file; also past page 99.
C28_NameFreshAndCanonical ==
    \A d \in WatchDirs :
        units[d].started
        => /\ units[d].new_name \notin units[d].before
           /\ FilenameMatch(units[d].new_name).matched

\* ------------------------------------------------------------------------
\* The recorded page and the directory (Spec)

\* C29: when retry_pages holds page p for a directory, p is at least 2, at
\* least two scans of page p are installed, and no installed file has a
\* page greater than p.
C29_AwaitedPageIsLast ==
    \A d \in DOMAIN retry_pages :
        /\ retry_pages[d] >= 2
        /\ GreatestScan(dirs[d], retry_pages[d]) >= 2
        /\ \A f \in GrammarNames(dirs[d]) : PageOf(f) <= retry_pages[d]

C29_Witness ==
    \E d \in DOMAIN retry_pages :
        /\ retry_pages[d] = 3
        /\ GreatestScan(dirs[d], 3) >= 3
        /\ GreatestScan(dirs[d], 2) >= 2

\* C30: after a unit that ended OK the directory has no retry entry, and
\* after a unit that ended STITCH FAILED for a file of page p its retry
\* entry is p.
C30_OutcomeMatchesRetryState ==
    \A d \in WatchDirs :
        LET u == units[d]
        IN  /\ (u.started /\ Outcomes(u) = {"OK"})
                  => d \notin DOMAIN retry_pages
            /\ (u.started /\ Outcomes(u) = {"STITCH FAILED"})
                  => /\ d \in DOMAIN retry_pages
                     /\ retry_pages[d] = PageOf(u.new_name)

C30_Witness ==
    \E d \in WatchDirs :
        /\ units[d].started
        /\ units[d].had_retry
        /\ Outcomes(units[d]) = {"STITCH FAILED"}
        /\ ScanOf(units[d].new_name) = 3
        /\ retry_pages[d] = PageOf(units[d].new_name)

=============================================================================
